---- MODULE Spec2Model ----
(***************************************************************************)
(* A model of the configuration tree of src/src/hparams_config.py: the     *)
(* class Config (construction, attribute assignment, update, override,     *)
(* as_dict) and the override-string parser (parse_from_str, eval_str_fn).  *)
(*                                                                         *)
(* Python values are records of one shape, so that any two can be          *)
(* compared:                                                               *)
(*   t    the type: "none", "bool", "int", "str", "list", "dict", "cfg"    *)
(*   id   the identity of a mutable object (list, dict, Config) that the   *)
(*        caller holds; 0 is an object allocated by the code itself        *)
(*        (Config(...), copy.deepcopy, a dict literal), which nothing      *)
(*        outside the tree refers to                                       *)
(*   n    the number of an int, 0/1 of a bool                              *)
(*   s    the characters of a str                                          *)
(*   kids the items of a list (k = <<>>) or, in insertion order, the       *)
(*        (k, v) pairs of a dict or of a Config's __dict__                 *)
(* A Python str is a sequence of one-character strings.                    *)
(*                                                                         *)
(* Three specifications share the operators: Spec (calls with mappings on  *)
(* one tree), SpecStr (override strings) and SpecAlias (structures the     *)
(* caller mutates after storing them).                                     *)
(***************************************************************************)
EXTENDS Integers, Sequences, FiniteSets, TLC

VARIABLES
    tree,    \* the Config object under test
    pre,     \* tree as it was when the last call started
    src,     \* the argument of the last call
    op,      \* the call that has just ended: "init", "setattr", "update",
             \* "override"; "idle" once the caller has moved on
    allow,   \* allow_new_keys of the last call
    exc,     \* the exception the last call raised, NoExc if it returned
    out,     \* the value the last call returned (as_dict, parse_from_str)
    ext      \* a structure the caller holds and may mutate

vars == <<tree, pre, src, op, allow, exc, out, ext>>

----------------------------------------------------------------------------
(* Python values *)

Val(t, id, n, s, kids) == [t |-> t, id |-> id, n |-> n, s |-> s, kids |-> kids]

PyNone == Val("none", 0, 0, <<>>, <<>>)
PyBool(b) == Val("bool", 0, IF b THEN 1 ELSE 0, <<>>, <<>>)
PyInt(n) == Val("int", 0, n, <<>>, <<>>)
PyStr(s) == Val("str", 0, 0, s, <<>>)
KV(k, v) == [k |-> k, v |-> v]
PyList(id, items) == Val("list", id, 0, <<>>, [i \in 1..Len(items) |-> KV(<<>>, items[i])])
PyDict(id, kids) == Val("dict", id, 0, <<>>, kids)
Cfg(id, kids) == Val("cfg", id, 0, <<>>, kids)

\* k in d
HasKey(kids, k) == \E i \in 1..Len(kids) : kids[i].k = k

\* d[k]
Get(kids, k) == kids[CHOOSE i \in 1..Len(kids) : kids[i].k = k].v

\* d[k] = v: an existing key keeps its place, a new key goes last
Put(kids, k, v) ==
    IF HasKey(kids, k)
    THEN [i \in 1..Len(kids) |-> IF kids[i].k = k THEN KV(k, v) ELSE kids[i]]
    ELSE Append(kids, KV(k, v))

\* what a call gives back: the object after the call and the exception raised
NoExc == [type |-> "none", msg |-> "", arg |-> <<>>]
Exc(type, msg, arg) == [type |-> type, msg |-> msg, arg |-> arg]
Res(self, e) == [self |-> self, exc |-> e]

----------------------------------------------------------------------------
(* class Config *)

RECURSIVE deepcopy(_)
RECURSIVE as_dict(_)
RECURSIVE Config(_)
RECURSIVE __setattr__(_, _, _)
RECURSIVE _update(_, _, _)
RECURSIVE UpdateItems(_, _, _, _)

\* as_dict with the bug of copying a Config value like any other value
as_dict_flat(self) ==
    PyDict(0, [i \in 1..Len(self.kids) |->
        KV(self.kids[i].k, deepcopy(self.kids[i].v))])

\* as_dict: a new dict; a Config value is converted, any other is deep-copied
as_dict(self) ==
    PyDict(0, [i \in 1..Len(self.kids) |->
        KV(self.kids[i].k,
           IF self.kids[i].v.t = "cfg"
           THEN as_dict(self.kids[i].v)
           ELSE deepcopy(self.kids[i].v))])

\* __deepcopy__: type(self)(self.as_dict())
__deepcopy__(self) == Config(as_dict(self)).self

\* copy.deepcopy: new objects all the way down; Config supplies __deepcopy__
deepcopy(v) ==
    CASE v.t = "cfg" -> __deepcopy__(v)
      [] v.t \in {"list", "dict"} ->
            [v EXCEPT !.id = 0,
                      !.kids = [i \in 1..Len(v.kids) |->
                                   KV(v.kids[i].k, deepcopy(v.kids[i].v))]]
      [] OTHER -> v

\* __setattr__ with the bug of storing the caller's object itself
__setattr__shared(self, k, v) ==
    IF v.t = "dict"
    THEN LET c == Config(v)
         IN  IF c.exc # NoExc THEN Res(self, c.exc)
             ELSE Res([self EXCEPT !.kids = Put(self.kids, k, c.self)], NoExc)
    ELSE Res([self EXCEPT !.kids = Put(self.kids, k, v)], NoExc)

\* __setattr__: self.__dict__[k] = Config(v) if isinstance(v, dict) else deepcopy(v)
__setattr__(self, k, v) ==
    IF v.t = "dict"
    THEN LET c == Config(v)
         IN  IF c.exc # NoExc THEN Res(self, c.exc)
             ELSE Res([self EXCEPT !.kids = Put(self.kids, k, c.self)], NoExc)
    ELSE Res([self EXCEPT !.kids = Put(self.kids, k, deepcopy(v))], NoExc)

\* MissingKey with the bug of inserting whatever allow_new_keys says
MissingKeyInsert(self, k, v, allow_new_keys) == __setattr__(self, k, v)

\* _update, `k not in self.__dict__`: insert, or raise KeyError naming k
MissingKey(self, k, v, allow_new_keys) ==
    IF allow_new_keys
    THEN __setattr__(self, k, v)
    ELSE Res(self, Exc("KeyError", "does not exist for overriding", k))

\* PresentKey with the bug of not passing allow_new_keys down (its default is True)
PresentKeyPermissive(self, k, v, allow_new_keys) ==
    LET cur == Get(self.kids, k)
        Into(d) == LET r == _update(cur, d, TRUE)
                   IN  Res([self EXCEPT !.kids = Put(self.kids, k, r.self)], r.exc)
    IN  IF cur.t = "cfg" /\ v.t = "dict" THEN Into(v)
        ELSE IF cur.t = "cfg" /\ v.t = "cfg" THEN Into(as_dict(v))
        ELSE __setattr__(self, k, v)

\* PresentKey with the bug of replacing a subtree instead of merging into it
PresentKeyReplace(self, k, v, allow_new_keys) == __setattr__(self, k, v)

\* _update, k in self.__dict__: merge into a Config child, or replace
PresentKey(self, k, v, allow_new_keys) ==
    LET cur == Get(self.kids, k)
        Into(d) == LET r == _update(cur, d, allow_new_keys)
                   IN  Res([self EXCEPT !.kids = Put(self.kids, k, r.self)], r.exc)
    IN  IF cur.t = "cfg" /\ v.t = "dict" THEN Into(v)
        ELSE IF cur.t = "cfg" /\ v.t = "cfg" THEN Into(as_dict(v))
        ELSE __setattr__(self, k, v)

\* _update, the body of `for k, v in six.iteritems(config_dict)`
UpdateOne(self, k, v, allow_new_keys) ==
    IF ~HasKey(self.kids, k)
    THEN MissingKey(self, k, v, allow_new_keys)
    ELSE PresentKey(self, k, v, allow_new_keys)

\* _update, the loop from pair i on: an exception ends it, what was merged stays
UpdateItems(self, items, i, allow_new_keys) ==
    IF i > Len(items) THEN Res(self, NoExc)
    ELSE LET r == UpdateOne(self, items[i].k, items[i].v, allow_new_keys)
         IN  IF r.exc # NoExc THEN r
             ELSE UpdateItems(r.self, items, i + 1, allow_new_keys)

\* `not config_dict`: None and the empty dict are false, a Config is true
Falsy(v) == v.t = "none" \/ (v.t \in {"dict", "list"} /\ v.kids = <<>>)

\* _update with the bug of undoing the merged keys when a later key raises
_update_atomic(self, config_dict, allow_new_keys) ==
    IF Falsy(config_dict) THEN Res(self, NoExc)
    ELSE IF config_dict.t = "cfg"
         THEN Res(self, Exc("KeyError", "", <<"i", "t", "e", "m", "s">>))
         ELSE LET r == UpdateItems(self, config_dict.kids, 1, allow_new_keys)
              IN  IF r.exc # NoExc THEN Res(self, r.exc) ELSE r

\* _update. six.iteritems(d) is d.items(): on a Config that is
\* __getattr__("items"), a KeyError unless the tree has that key
_update(self, config_dict, allow_new_keys) ==
    IF Falsy(config_dict) THEN Res(self, NoExc)
    ELSE IF config_dict.t = "cfg"
         THEN Res(self, Exc("KeyError", "", <<"i", "t", "e", "m", "s">>))
         ELSE UpdateItems(self, config_dict.kids, 1, allow_new_keys)

\* update: _update allowing new keys
update(self, config_dict) == _update(self, config_dict, TRUE)

\* __init__: an empty object, then self.update(config_dict)
Config(config_dict) == update(Cfg(0, <<>>), config_dict)

----------------------------------------------------------------------------
(* Python str operations on sequences of characters *)

RECURSIVE SplitFrom(_, _, _, _)
\* s.split(sep) from position i on, cur being the piece read so far
SplitFrom(s, sep, i, cur) ==
    IF i > Len(s) THEN <<cur>>
    ELSE IF s[i] = sep THEN <<cur>> \o SplitFrom(s, sep, i + 1, <<>>)
    ELSE SplitFrom(s, sep, i + 1, Append(cur, s[i]))

\* s.split(sep): every piece between separators, empty ones included
split(s, sep) == SplitFrom(s, sep, 1, <<>>)

\* sep in s
In(ch, s) == \E i \in 1..Len(s) : s[i] = ch

\* s.index(ch), 1-based
index(s, ch) == CHOOSE i \in 1..Len(s) : s[i] = ch /\ \A j \in 1..(i - 1) : s[j] # ch

RECURSIVE strip(_)
\* s.strip(): no whitespace at either end
strip(s) ==
    IF s = <<>> THEN s
    ELSE IF s[1] = " " THEN strip(Tail(s))
    ELSE IF s[Len(s)] = " " THEN strip(SubSeq(s, 1, Len(s) - 1))
    ELSE s

\* s.endswith(suffix)
endswith(s, suffix) ==
    Len(s) >= Len(suffix) /\ SubSeq(s, Len(s) - Len(suffix) + 1, Len(s)) = suffix

Digits == <<"0", "1", "2", "3", "4", "5", "6", "7", "8", "9">>
IsDigit(c) == \E d \in 1..10 : Digits[d] = c
DigitVal(c) == (CHOOSE d \in 1..10 : Digits[d] = c) - 1

RECURSIVE DecimalVal(_)
DecimalVal(s) ==
    IF s = <<>> THEN 0 ELSE 10 * DecimalVal(SubSeq(s, 1, Len(s) - 1)) + DigitVal(s[Len(s)])

\* ast.literal_eval on the strings this model builds (letters, digits): a decimal
\* integer (no leading zero, unless it is all zeros), None, True or False is a
\* literal; anything else, the empty string included, raises ValueError or
\* SyntaxError
IsLiteral(val) ==
    \/ /\ val # <<>>
       /\ \A i \in 1..Len(val) : IsDigit(val[i])
       /\ (val[1] # "0" \/ \A i \in 1..Len(val) : val[i] = "0")
    \/ val \in {<<"N", "o", "n", "e">>, <<"T", "r", "u", "e">>, <<"F", "a", "l", "s", "e">>}

literal_eval(val) ==
    CASE val = <<"N", "o", "n", "e">> -> PyNone
      [] val = <<"T", "r", "u", "e">> -> PyBool(TRUE)
      [] val = <<"F", "a", "l", "s", "e">> -> PyBool(FALSE)
      [] OTHER -> PyInt(DecimalVal(val))

\* eval_str_fn: "true"/"false", else the literal, else the string itself
eval_str_fn(val) ==
    IF val \in {<<"t", "r", "u", "e">>, <<"f", "a", "l", "s", "e">>}
    THEN PyBool(val = <<"t", "r", "u", "e">>)
    ELSE IF IsLiteral(val) THEN literal_eval(val) ELSE PyStr(val)

----------------------------------------------------------------------------
(* parse_from_str *)

RECURSIVE add_kv_recursive(_, _)
\* add_kv_recursive with the bug of not splitting arrays at *
add_kv_no_array(k, v) ==
    IF ~In(".", k)
    THEN PyDict(0, <<KV(k, eval_str_fn(v))>>)
    ELSE LET pos == index(k, ".")
         IN  PyDict(0, <<KV(SubSeq(k, 1, pos - 1),
                           add_kv_recursive(SubSeq(k, pos + 1, Len(k)), v))>>)

\* add_kv_recursive: x.y.z=tt to {x: {y: {z: tt}}}; * splits an array
add_kv_recursive(k, v) ==
    IF ~In(".", k)
    THEN IF In("*", v)
         THEN LET vs == split(v, "*")
              IN  PyDict(0, <<KV(k, PyList(0, [i \in 1..Len(vs) |-> eval_str_fn(vs[i])]))>>)
         ELSE PyDict(0, <<KV(k, eval_str_fn(v))>>)
    ELSE LET pos == index(k, ".")
         IN  PyDict(0, <<KV(SubSeq(k, 1, pos - 1),
                           add_kv_recursive(SubSeq(k, pos + 1, Len(k)), v))>>)

RECURSIVE merge_dict_recursive(_, _)
RECURSIVE MergeKeys(_, _, _)
\* merge_dict_recursive, the loop `for k in src.keys()` from key i on
MergeKeys(target, s, i) ==
    IF i > Len(s.kids) THEN target
    ELSE LET k == s.kids[i].k
             v == s.kids[i].v
             t1 == IF /\ HasKey(target.kids, k)
                      /\ Get(target.kids, k).t = "dict"
                      /\ v.t = "dict"
                   THEN [target EXCEPT !.kids =
                            Put(target.kids, k, merge_dict_recursive(Get(target.kids, k), v))]
                   ELSE [target EXCEPT !.kids = Put(target.kids, k, v)]
         IN  MergeKeys(t1, s, i + 1)

\* merge_dict_recursive with the bug of overwriting instead of merging
merge_dict_overwrite(target, s) ==
    [target EXCEPT !.kids =
        LET F[i \in 0..Len(s.kids)] ==
                IF i = 0 THEN target.kids ELSE Put(F[i - 1], s.kids[i].k, s.kids[i].v)
        IN  F[Len(s.kids)]]

\* merge_dict_recursive: the target after the merge (it is changed in place)
merge_dict_recursive(target, s) == MergeKeys(target, s, 1)

\* ParsePair with the bug of splitting at the first = only
ParsePairFirstEq(config_dict, kv_pair) ==
    IF kv_pair = <<>> THEN Res(config_dict, NoExc)
    ELSE IF ~In("=", kv_pair)
         THEN Res(config_dict, Exc("ValueError", "unpack", <<>>))
         ELSE LET pos == index(kv_pair, "=")
              IN  Res(merge_dict_recursive(config_dict,
                         add_kv_recursive(strip(SubSeq(kv_pair, 1, pos - 1)),
                                          SubSeq(kv_pair, pos + 1, Len(kv_pair)))),
                      NoExc)

\* parse_from_str, the body of the loop for one kv_pair: the unpacking of
\* kv_pair.split("=") raises ValueError unless there are exactly two pieces
ParsePair(config_dict, kv_pair) ==
    IF kv_pair = <<>> THEN Res(config_dict, NoExc)
    ELSE LET parts == split(kv_pair, "=")
         IN  IF Len(parts) # 2
             THEN Res(config_dict, Exc("ValueError", "unpack", <<>>))
             ELSE Res(merge_dict_recursive(config_dict,
                                           add_kv_recursive(strip(parts[1]), parts[2])),
                      NoExc)

RECURSIVE ParsePairs(_, _, _)
\* parse_from_str, the loop over config_str.split(",") from pair i on
ParsePairs(config_dict, pairs, i) ==
    IF i > Len(pairs) THEN Res(config_dict, NoExc)
    ELSE LET r == ParsePair(config_dict, pairs[i])
         IN  IF r.exc # NoExc THEN r ELSE ParsePairs(r.self, pairs, i + 1)

\* parse_from_str: the dict (in self), or ValueError("Invalid config_str: ...")
parse_from_str(config_str) ==
    IF config_str = <<>> THEN Res(PyDict(0, <<>>), NoExc)
    ELSE LET r == ParsePairs(PyDict(0, <<>>), split(config_str, ","), 1)
         IN  IF r.exc.type = "ValueError"
             THEN Res(PyNone, Exc("ValueError", "Invalid config_str", config_str))
             ELSE r

\* parse_from_yaml: what yaml.load gives for the file, or the I/O error of
\* opening it; the file system decides, and loaded is its answer
parse_from_yaml(yaml_file_path, loaded) == loaded

\* override with the bug of merging the pairs parsed before a malformed one
override_partial(self, config_dict_or_str, allow_new_keys, loaded) ==
    LET x == config_dict_or_str
        s == x.s
        merge(r) == IF r.exc # NoExc THEN Res(self, r.exc)
                    ELSE _update(self, r.self, allow_new_keys)
        parsed == ParsePairs(PyDict(0, <<>>), split(s, ","), 1)
        eager == IF parsed.exc # NoExc
                 THEN Res(_update(self, parsed.self, allow_new_keys).self,
                          Exc("ValueError", "Invalid config_str", s))
                 ELSE _update(self, parsed.self, allow_new_keys)
    IN  IF x.t = "str"
        THEN IF s = <<>> THEN Res(self, NoExc)
             ELSE IF In("=", s) THEN eager
             ELSE IF endswith(s, <<".", "y", "a", "m", "l">>)
                  THEN merge(parse_from_yaml(s, loaded))
             ELSE Res(self, Exc("ValueError", "Invalid string", s))
        ELSE IF x.t = "dict" THEN _update(self, x, allow_new_keys)
        ELSE Res(self, Exc("ValueError", "Unknown value type", <<>>))

\* override: the source is resolved to a dict, then merged
override(self, config_dict_or_str, allow_new_keys, loaded) ==
    LET x == config_dict_or_str
        s == x.s
        merge(r) == IF r.exc # NoExc THEN Res(self, r.exc)
                    ELSE _update(self, r.self, allow_new_keys)
    IN  IF x.t = "str"
        THEN IF s = <<>> THEN Res(self, NoExc)
             ELSE IF In("=", s) THEN merge(parse_from_str(s))
             ELSE IF endswith(s, <<".", "y", "a", "m", "l">>)
                  THEN merge(parse_from_yaml(s, loaded))
             ELSE Res(self, Exc("ValueError", "Invalid string", s))
        ELSE IF x.t = "dict" THEN _update(self, x, allow_new_keys)
        ELSE Res(self, Exc("ValueError", "Unknown value type", <<>>))

----------------------------------------------------------------------------
(* The values the caller passes *)

ka == <<"a">>
kb == <<"b">>
kc == <<"c">>

RECURSIVE Held(_, _)
\* v as an object of the caller's: every list, dict and Config in it has an
\* identity of its own, different from 0
Held(v, id) ==
    IF v.t \in {"list", "dict", "cfg"}
    THEN [v EXCEPT !.id = id,
                   !.kids = [i \in 1..Len(v.kids) |->
                                KV(v.kids[i].k, Held(v.kids[i].v, 4 * id + i))]]
    ELSE v

\* the dicts with the keys ks, in that order, and values of V(k)
DictsOver(ks, V(_)) ==
    LET vals == UNION {V(ks[i]) : i \in 1..Len(ks)}
    IN  {PyDict(0, [i \in 1..Len(ks) |-> KV(ks[i], f[i])]) :
            f \in {g \in [1..Len(ks) -> vals] : \A i \in 1..Len(ks) : g[i] \in V(ks[i])}}

\* the sequences of at most n different keys of K
KeySeqs(K, n) ==
    {ks \in UNION {[1..m -> K] : m \in 0..n} :
        \A i, j \in 1..Len(ks) : i # j => ks[i] # ks[j]}

MaxKeys == 2

TheList == PyList(0, <<PyInt(1), PyInt(2)>>)
InnerVals(k) == {PyInt(2)}
\* nested mappings: empty, one or two keys, one holding a list
Inner ==
    UNION {DictsOver(ks, InnerVals) : ks \in KeySeqs({kb, kc}, 2)}
        \cup {PyDict(0, <<KV(kb, TheList)>>)}
\* a Config object of the caller's, as a value of a source
InnerCfg == {Config(PyDict(0, <<KV(kc, PyInt(2))>>)).self}
TopVals(k) ==
    CASE k = ka -> {PyInt(1)} \cup Inner \cup InnerCfg
      [] k = kb -> {PyInt(1), TheList}
      [] OTHER  -> {PyInt(1)}
TopKeySeqs == KeySeqs({ka, kb, kc}, MaxKeys)
\* the mappings passed to Config(...), update and override
Mappings == {Held(d, 1) : d \in UNION {DictsOver(ks, TopVals) : ks \in TopKeySeqs}}
\* the other things passed: None, a Config
Others == {PyNone} \cup {Held(c, 1) : c \in InnerCfg}
Sources == Mappings \cup Others

Unset == PyStr(<<"unset">>)

\* the file system's answer where no file is read
NoFile == Res(PyNone, Exc("IOError", "", <<>>))

----------------------------------------------------------------------------
(* The calls on one Config object *)

\* h = Config()
Init ==
    /\ tree = Config(PyNone).self
    /\ pre = Cfg(0, <<>>)
    /\ src = PyNone
    /\ op = "init"
    /\ allow = TRUE
    /\ exc = NoExc
    /\ out = Unset
    /\ ext = PyNone

\* a call on the tree that gave r: the tree is changed in place, also when
\* the call raises
Called(name, arg, allow_new_keys, r) ==
    /\ op = "idle"
    /\ tree' = r.self
    /\ exc' = r.exc
    /\ pre' = tree
    /\ src' = arg
    /\ op' = name
    /\ allow' = allow_new_keys
    /\ out' = Unset
    /\ UNCHANGED ext

\* tree = Config(M): a new object, bound to the name unless __init__ raises
DoInit ==
    \E M \in Sources :
        /\ op = "idle"
        /\ tree' = IF Config(M).exc = NoExc THEN Config(M).self ELSE tree
        /\ exc' = Config(M).exc
        /\ pre' = Cfg(0, <<>>)
        /\ src' = M
        /\ op' = "init"
        /\ allow' = TRUE
        /\ out' = Unset
        /\ UNCHANGED ext

\* tree.update(M)
DoUpdate == \E M \in Sources : Called("update", M, TRUE, update(tree, M))

\* tree.override(M), tree.override(M, True)
DoOverride ==
    \E M \in Sources, a \in BOOLEAN :
        Called("override", M, a, override(tree, M, a, NoFile))

\* tree.k = v
DoSetAttr ==
    \E k \in {ka, kb, kc} :
        \E v \in {Held(x, 1) : x \in TopVals(k)} :
            Called("setattr", PyDict(0, <<KV(k, v)>>), TRUE, __setattr__(tree, k, v))

\* tree.as_dict(), on a tree just built or at rest
DoAsDict ==
    /\ op \in {"init", "idle"}
    /\ out = Unset
    /\ exc = NoExc
    /\ out' = as_dict(tree)
    /\ UNCHANGED <<tree, pre, src, op, allow, exc, ext>>

\* the caller moves on: what is left of the call is the tree
Return ==
    /\ op # "idle"
    /\ op' = "idle"
    /\ pre' = tree
    /\ src' = PyNone
    /\ allow' = TRUE
    /\ exc' = NoExc
    /\ out' = Unset
    /\ UNCHANGED <<tree, ext>>

Next == DoInit \/ DoUpdate \/ DoOverride \/ DoSetAttr \/ DoAsDict \/ Return

Spec == Init /\ [][Next]_vars

----------------------------------------------------------------------------
(* What the claims speak of *)

KeysOf(v) == {v.kids[i].k : i \in 1..Len(v.kids)}

RECURSIVE Paths(_)
\* the key paths of a tree, at every depth
Paths(c) ==
    UNION {{<<c.kids[i].k>>} \cup
           (IF c.kids[i].v.t = "cfg"
            THEN {<<c.kids[i].k>> \o p : p \in Paths(c.kids[i].v)}
            ELSE {}) : i \in 1..Len(c.kids)}

RECURSIVE At(_, _)
\* the value at a key path of a tree
At(c, p) == IF Len(p) = 1 THEN Get(c.kids, p[1]) ELSE At(Get(c.kids, p[1]), Tail(p))

RECURSIVE ValEq(_, _)
\* Python's ==: the identity of an object does not count, nor does the order
\* of the keys of a dict (or of a Config's __dict__, compared as a mapping)
ValEq(x, y) ==
    /\ x.t = y.t
    /\ x.n = y.n
    /\ x.s = y.s
    /\ Len(x.kids) = Len(y.kids)
    /\ IF x.t = "list"
       THEN \A i \in 1..Len(x.kids) : ValEq(x.kids[i].v, y.kids[i].v)
       ELSE /\ KeysOf(x) = KeysOf(y)
            /\ \A k \in KeysOf(x) : ValEq(Get(x.kids, k), Get(y.kids, k))

RECURSIVE NoCfg(_)
\* no Config object in v, at any depth
NoCfg(v) == v.t # "cfg" /\ \A i \in 1..Len(v.kids) : NoCfg(v.kids[i].v)

\* a nested mapping or a Config
MappingLike(v) == v.t \in {"dict", "cfg"}

RECURSIVE IsMerge(_, _, _)
RECURSIVE IsNorm(_, _)
\* r is the normalized form of v: a Config built from a nested mapping (a copy
\* of a Config), else the same value
IsNorm(r, v) ==
    IF MappingLike(v)
    THEN r.t = "cfg" /\ IsMerge(r, Cfg(0, <<>>), v)
    ELSE ValEq(r, v)

\* r is the deep merge of the mapping s into the tree p
IsMerge(r, p, s) ==
    /\ r.t = "cfg"
    /\ KeysOf(r) = KeysOf(p) \cup KeysOf(s)
    /\ \A k \in KeysOf(r) :
        IF k \notin KeysOf(s) THEN Get(r.kids, k) = Get(p.kids, k)
        ELSE IF k \in KeysOf(p) /\ Get(p.kids, k).t = "cfg" /\ MappingLike(Get(s.kids, k))
             THEN IsMerge(Get(r.kids, k), Get(p.kids, k), Get(s.kids, k))
             ELSE IsNorm(Get(r.kids, k), Get(s.kids, k))

RECURSIVE FirstMissing(_, _, _)
\* the first key, in the iteration order of the mapping s from pair i on and
\* going down into the subtrees of p that s matches with a mapping, that its
\* node of p lacks: <<k>>, or <<>> if there is none
FirstMissing(p, s, i) ==
    IF i > Len(s.kids) THEN <<>>
    ELSE LET k == s.kids[i].k
             v == s.kids[i].v
             below == IF /\ k \in KeysOf(p)
                         /\ Get(p.kids, k).t = "cfg"
                         /\ MappingLike(v)
                      THEN FirstMissing(Get(p.kids, k), v, 1)
                      ELSE <<>>
         IN  IF k \notin KeysOf(p) THEN <<k>>
             ELSE IF below # <<>> THEN below
             ELSE FirstMissing(p, s, i + 1)

StrictOverride == op = "override" /\ ~allow /\ src.t = "dict"

(* C1, as claimed: a strict override adds no key path to the tree: every key
   path of the tree after the call was one before it. *)
C1_NoNewPath == (op = "override" /\ ~allow) => Paths(tree) \subseteq Paths(pre)

(* C1, amended: a strict override adds no key to a node the tree has: every
   key path of the tree that was absent before the call lies below a path
   that held a leaf (no subtree) before the call, which the source replaced
   by a mapping; the keys of the root and of every subtree do not grow. *)
C1_NewPathOnlyBelowReplacedLeaf ==
    (op = "override" /\ ~allow) =>
        \A p \in Paths(tree) \ Paths(pre) :
            \E i \in 1..(Len(p) - 1) :
                /\ SubSeq(p, 1, i) \in Paths(pre)
                /\ At(pre, SubSeq(p, 1, i)).t # "cfg"
                /\ At(tree, SubSeq(p, 1, i)).t = "cfg"

C1_Witness ==
    /\ StrictOverride
    /\ exc.type = "KeyError"
    /\ Paths(tree) \ Paths(pre) # {}

(* C2: a strict override whose merge reaches a node lacking a key of the
   source raises KeyError naming the first such key in iteration order. *)
C2_RaisesNamingFirstMissingKey ==
    (StrictOverride /\ FirstMissing(pre, src, 1) # <<>>) =>
        /\ exc.type = "KeyError"
        /\ exc.msg = "does not exist for overriding"
        /\ exc.arg = FirstMissing(pre, src, 1)[1]

\* {a: {b: 2}} overridden with {a: {c: 2}} raises naming c
C2_Witness ==
    /\ StrictOverride
    /\ pre = Cfg(0, <<KV(ka, Cfg(0, <<KV(kb, PyInt(2))>>))>>)
    /\ ValEq(src, PyDict(0, <<KV(ka, PyDict(0, <<KV(kc, PyInt(2))>>))>>))
    /\ exc.arg = kc

(* C3: override takes a Config as its source and merges it as it merges the
   Config's plain mapping form: same tree, same exception. *)
C3_ConfigSourceMergedAsMapping ==
    (op = "override" /\ src.t = "cfg") =>
        /\ tree = override(pre, as_dict(src), allow, NoFile).self
        /\ exc = override(pre, as_dict(src), allow, NoFile).exc

(* C4: update is the permissive deep merge: it raises nothing, inserts the
   absent keys, merges a mapping into a subtree keeping the subtree's other
   keys, replaces any other value by the normalized new one, and leaves the
   keys the source does not name as they were. *)
C4_UpdateIsDeepMerge ==
    (op = "update" /\ src.t = "dict") => (exc = NoExc /\ IsMerge(tree, pre, src))

\* {a: {b: 2}} updated with {a: {c: 2}} is {a: {b: 2, c: 2}}
C4_Witness ==
    /\ op = "update"
    /\ pre = Cfg(0, <<KV(ka, Cfg(0, <<KV(kb, PyInt(2))>>))>>)
    /\ ValEq(src, PyDict(0, <<KV(ka, PyDict(0, <<KV(kc, PyInt(2))>>))>>))
    /\ tree = Cfg(0, <<KV(ka, Cfg(0, <<KV(kb, PyInt(2)), KV(kc, PyInt(2))>>))>>)

(* C5: Config(M).as_dict() is value-equal to M and holds no Config, for a
   mapping M of primitives, lists and nested mappings. *)
C5_RoundTrip ==
    (op = "init" /\ src.t = "dict" /\ NoCfg(src) /\ out # Unset) =>
        (ValEq(out, src) /\ NoCfg(out))

\* M with an empty nested mapping and a list
C5_Witness ==
    /\ op = "init"
    /\ out # Unset
    /\ ValEq(src, PyDict(0, <<KV(ka, PyDict(0, <<>>)), KV(kb, TheList)>>))

\* the place of key k among the pairs of s, 0 if it has none
PlaceOf(s, k) ==
    IF k \in KeysOf(s) THEN CHOOSE i \in 1..Len(s.kids) : s.kids[i].k = k ELSE 0

\* the merge of pair i of s into p raises
Fails(p, s, i) ==
    LET k == s.kids[i].k
    IN  \/ k \notin KeysOf(p)
        \/ /\ Get(p.kids, k).t = "cfg"
           /\ MappingLike(s.kids[i].v)
           /\ FirstMissing(Get(p.kids, k), s.kids[i].v, 1) # <<>>

RECURSIVE IsPartial(_, _, _)
\* r is p after a strict merge of s that raised: the pairs before the failing
\* one are merged, the failing one is merged as far as it went (if it is a
\* mapping for a subtree) and everything else is as it was
IsPartial(r, p, s) ==
    LET fail == CHOOSE i \in 1..Len(s.kids) :
                    Fails(p, s, i) /\ \A j \in 1..(i - 1) : ~Fails(p, s, j)
    IN  /\ r.t = "cfg"
        /\ KeysOf(r) = KeysOf(p)
        /\ \A k \in KeysOf(p) :
            LET j == PlaceOf(s, k)
                v == s.kids[j].v
            IN  IF j = 0 \/ j > fail THEN Get(r.kids, k) = Get(p.kids, k)
                ELSE IF j = fail THEN IsPartial(Get(r.kids, k), Get(p.kids, k), v)
                ELSE IF Get(p.kids, k).t = "cfg" /\ MappingLike(v)
                     THEN IsMerge(Get(r.kids, k), Get(p.kids, k), v)
                     ELSE IsNorm(Get(r.kids, k), v)

(* C9: a strict override that raises KeyError at some key leaves the keys of
   the source merged before it (also inside the same subtree) with their new
   values, and every other key of the tree with its old value. *)
C9_NoRollback ==
    (StrictOverride /\ exc.type = "KeyError") => IsPartial(tree, pre, src)

\* {a: {b: [1, 2]}, b: 1} overridden with {a: {b: 2, c: 2}, b: [1, 2]}:
\* a.b is 2, c raises, b is still 1
C9_Witness ==
    /\ StrictOverride
    /\ exc.arg = kc
    /\ pre = Cfg(0, <<KV(ka, Cfg(0, <<KV(kb, TheList)>>)), KV(kb, PyInt(1))>>)
    /\ ValEq(src, PyDict(0, <<KV(ka, PyDict(0, <<KV(kb, PyInt(2)), KV(kc, PyInt(2))>>)),
                              KV(kb, TheList)>>))
    /\ tree = Cfg(0, <<KV(ka, Cfg(0, <<KV(kb, PyInt(2))>>)), KV(kb, PyInt(1))>>)

----------------------------------------------------------------------------
(* Override strings *)

RECURSIVE Join(_, _)
\* sep.join(ss)
Join(ss, sep) ==
    IF ss = <<>> THEN <<>>
    ELSE IF Len(ss) = 1 THEN ss[1]
    ELSE ss[1] \o <<sep>> \o Join(Tail(ss), sep)

MaxPairs == 2

KeyPaths == {<<ka>>, <<ka, kb>>, <<ka, kc>>}
ValueStrs == {<<"1">>, <<"2">>}
\* key=value: dotted keys, a deeper key, an array, a boolean
GoodPairs ==
    {Join(p, ".") \o <<"=">> \o v : p \in KeyPaths, v \in ValueStrs}
        \cup {<<"a", ".", "b", ".", "c", "=", "5">>,
              <<"a", "=", "1", "*", "2", "*", "3">>,
              <<"b", "=", "t", "r", "u", "e">>}
\* the empty pair, two =, no =, a key to strip, an empty value
OddPairs ==
    {<<>>, <<"a", "=", "b", "=", "c">>, <<"a">>,
     <<" ", "a", " ", "=", "5">>, <<"a", "=">>}
PairStrs == GoodPairs \cup OddPairs
YamlPath == <<"f", ".", "y", "a", "m", "l">>
\* the strings passed to override and parse_from_str
OverrideStrs ==
    {Join(ps, ",") : ps \in UNION {[1..m -> PairStrs] : m \in 0..MaxPairs}}
        \cup {YamlPath}

\* what reading the file of a path gives: a mapping, an empty file, an error
FilesFor(s) ==
    IF ~In("=", s) /\ endswith(s, <<".", "y", "a", "m", "l">>)
    THEN {Res(PyDict(0, <<KV(ka, PyInt(5))>>), NoExc), Res(PyNone, NoExc), NoFile}
    ELSE {NoFile}

\* the trees the strings are applied to
StrInitMappings ==
    {PyDict(0, <<KV(ka, PyNone)>>),
     PyDict(0, <<KV(ka, PyDict(0, <<KV(kb, PyDict(0, <<KV(kc, PyInt(0))>>))>>))>>),
     PyDict(0, <<KV(ka, PyDict(0, <<KV(kb, PyInt(0)), KV(kc, PyInt(0))>>)),
                 KV(kb, PyInt(0))>>)}

\* a tree built from a catalog, at rest
InitStr ==
    \E M \in StrInitMappings :
        /\ tree = Config(M).self
        /\ pre = Config(M).self
        /\ src = PyNone
        /\ op = "idle"
        /\ allow = TRUE
        /\ exc = NoExc
        /\ out = Unset
        /\ ext = PyNone

\* tree.parse_from_str(s)
DoParse ==
    \E s \in OverrideStrs :
        LET r == parse_from_str(s)
        IN  /\ op = "idle"
            /\ op' = "parse"
            /\ src' = PyStr(s)
            /\ exc' = r.exc
            /\ out' = IF r.exc = NoExc THEN r.self ELSE Unset
            /\ pre' = tree
            /\ UNCHANGED <<tree, allow, ext>>

\* tree.override(s), tree.override(s, True)
DoOverrideStr ==
    \E s \in OverrideStrs, a \in BOOLEAN :
        \E f \in FilesFor(s) :
            Called("override", PyStr(s), a, override(tree, PyStr(s), a, f))

\* the sources that are neither a string nor a dict: None, a Config, an int,
\* a list
StrOthers == Others \cup {PyInt(1), Held(TheList, 1)}

\* tree.override(x), tree.override(x, True) with such a source
DoOverrideOther ==
    \E x \in StrOthers, a \in BOOLEAN :
        Called("override", x, a, override(tree, x, a, NoFile))

NextStr == DoParse \/ DoOverrideStr \/ DoOverrideOther

SpecStr == InitStr /\ [][NextStr]_vars

RECURSIVE Count(_, _)
\* s.count(ch)
Count(s, ch) ==
    IF s = <<>> THEN 0 ELSE (IF s[1] = ch THEN 1 ELSE 0) + Count(Tail(s), ch)

\* the pairs of a string that are not empty, in order
NonEmptyPairs(s) == SelectSeq(split(s, ","), LAMBDA kv : kv # <<>>)

\* a pair that is not empty and has no = or more than one
Malformed(kv) == kv # <<>> /\ Count(kv, "=") # 1

(* C7: parse_from_str raises ValueError naming the input string whenever a
   non-empty pair has no = or more than one; empty pairs are skipped: the
   string parses as it does with its empty pairs taken out. *)
C7_MalformedPairRaises ==
    (op = "parse") =>
        LET kvs == NonEmptyPairs(src.s)
            r == parse_from_str(Join(kvs, ","))
        IN  /\ (\E i \in 1..Len(kvs) : Malformed(kvs[i])) =>
                    exc = Exc("ValueError", "Invalid config_str", src.s)
            /\ (\A i \in 1..Len(kvs) : ~Malformed(kvs[i])) => exc = NoExc
            /\ exc.type = r.exc.type
            /\ exc = NoExc => out = r.self

\* ",a=b=c": the empty pair is passed over and the two = raise
C7_Witness ==
    /\ op = "parse"
    /\ src.s = <<",", "a", "=", "b", "=", "c">>
    /\ exc.type = "ValueError"

RECURSIVE Nest(_, _)
\* {k1: {k2: ... {kn: val}}}
Nest(ks, val) ==
    IF Len(ks) = 1 THEN PyDict(0, <<KV(ks[1], val)>>)
    ELSE PyDict(0, <<KV(ks[1], Nest(Tail(ks), val))>>)

\* the value of a right-hand side: a list of the pieces between *, or a scalar
ValueOf(v) ==
    IF In("*", v)
    THEN PyList(0, [i \in 1..Len(split(v, "*")) |-> eval_str_fn(split(v, "*")[i])])
    ELSE eval_str_fn(v)

KeyOf(kv) == split(strip(split(kv, "=")[1]), ".")

(* C8: a single pair k1.k2.....kn=v parses to the n-deep mapping
   {k1: {k2: ... {kn: val}}}, val being the list of eval_str_fn of the pieces
   of v between * if v has a *, else eval_str_fn(v); "a.b.c=5" on
   {a: {b: {c: 0}}} gives {a: {b: {c: 5}}} and "a=1*2*3" on {a: None} gives
   {a: [1, 2, 3]}. *)
C8_SinglePairNests ==
    /\ (op = "parse" /\ ~In(",", src.s) /\ Count(src.s, "=") = 1) =>
            /\ exc = NoExc
            /\ out = Nest(KeyOf(src.s), ValueOf(split(src.s, "=")[2]))
    /\ (/\ op = "override"
        /\ src.s = <<"a", ".", "b", ".", "c", "=", "5">>
        /\ pre = Config(PyDict(0, <<KV(ka, PyDict(0, <<KV(kb,
                     PyDict(0, <<KV(kc, PyInt(0))>>))>>))>>)).self) =>
            /\ exc = NoExc
            /\ tree = Cfg(0, <<KV(ka, Cfg(0, <<KV(kb, Cfg(0, <<KV(kc, PyInt(5))>>))>>))>>)
    /\ (/\ op = "override"
        /\ src.s = <<"a", "=", "1", "*", "2", "*", "3">>
        /\ pre = Cfg(0, <<KV(ka, PyNone)>>)) =>
            /\ exc = NoExc
            /\ tree = Cfg(0, <<KV(ka, PyList(0, <<PyInt(1), PyInt(2), PyInt(3)>>))>>)

\* "a.b.c=5" applied to {a: {b: {c: 0}}}
C8_Witness ==
    /\ op = "override"
    /\ ~allow
    /\ src.s = <<"a", ".", "b", ".", "c", "=", "5">>
    /\ tree = Cfg(0, <<KV(ka, Cfg(0, <<KV(kb, Cfg(0, <<KV(kc, PyInt(5))>>))>>))>>)

RECURSIVE Leaves(_)
\* the (path, value) pairs of the values of a nested dict that are no dicts
Leaves(d) ==
    UNION {IF d.kids[i].v.t = "dict"
           THEN {<<<<d.kids[i].k>> \o l[1], l[2]>> : l \in Leaves(d.kids[i].v)}
           ELSE {<<<<d.kids[i].k>>, d.kids[i].v>>} : i \in 1..Len(d.kids)}

\* p is a prefix of q, or q of p
Along(p, q) ==
    \/ Len(p) <= Len(q) /\ SubSeq(q, 1, Len(p)) = p
    \/ Len(q) <= Len(p) /\ SubSeq(p, 1, Len(q)) = q

\* the assignments of a string that the later ones leave standing: no later
\* one assigns to the same path, to a path above it or to a path below it,
\* unless both are below a common ancestor only
Standing(s) ==
    LET kvs == NonEmptyPairs(s)
    IN  {<<KeyOf(kvs[i]), ValueOf(split(kvs[i], "=")[2])>> :
            i \in {j \in 1..Len(kvs) :
                    \A l \in (j + 1)..Len(kvs) : ~Along(KeyOf(kvs[j]), KeyOf(kvs[l]))}}

Lit(d) == PyDict(0, d)

(* C10: the pairs of one string are merged left to right: pairs with a common
   dotted prefix combine into one nested mapping and the last assignment to a
   path wins, with no duplicate-key error: "a.b=1,a.c=2" gives
   {a: {b: 1, c: 2}}, "a=1,a=2" gives {a: 2}, "a.b=1,a=2" gives {a: 2} and
   "a=2,a.b=1" gives {a: {b: 1}}. *)
C10_LastAssignmentWins ==
    (op = "parse" /\ \A i \in 1..Len(NonEmptyPairs(src.s)) : ~Malformed(NonEmptyPairs(src.s)[i])) =>
        /\ exc = NoExc
        /\ Leaves(out) = Standing(src.s)
        /\ src.s = <<"a", ".", "b", "=", "1", ",", "a", ".", "c", "=", "2">> =>
              out = Lit(<<KV(ka, Lit(<<KV(kb, PyInt(1)), KV(kc, PyInt(2))>>))>>)
        /\ src.s = <<"a", "=", "1", ",", "a", "=", "2">> => out = Lit(<<KV(ka, PyInt(2))>>)
        /\ src.s = <<"a", ".", "b", "=", "1", ",", "a", "=", "2">> =>
              out = Lit(<<KV(ka, PyInt(2))>>)
        /\ src.s = <<"a", "=", "2", ",", "a", ".", "b", "=", "1">> =>
              out = Lit(<<KV(ka, Lit(<<KV(kb, PyInt(1))>>))>>)

\* "a.b=1,a.c=2" parsed
C10_Witness ==
    /\ op = "parse"
    /\ src.s = <<"a", ".", "b", "=", "1", ",", "a", ".", "c", "=", "2">>
    /\ out = Lit(<<KV(ka, Lit(<<KV(kb, PyInt(1)), KV(kc, PyInt(2))>>))>>)

\* the sources that override cannot resolve to a mapping: a string with = and
\* a malformed pair, a non-empty string with no = that does not end in .yaml,
\* a value that is neither a string nor a mapping
ResolveFails(x) ==
    \/ /\ x.t = "str"
       /\ In("=", x.s)
       /\ \E i \in 1..Len(NonEmptyPairs(x.s)) : Malformed(NonEmptyPairs(x.s)[i])
    \/ /\ x.t = "str"
       /\ x.s # <<>>
       /\ Count(x.s, "=") = 0
       /\ (Len(x.s) < 5 \/ SubSeq(x.s, Len(x.s) - 4, Len(x.s)) # <<".", "y", "a", "m", "l">>)
    \/ x.t # "str" /\ ~MappingLike(x)

(* C11: when override fails while resolving its source (a malformed
   key=value string, a non-empty string with no = that does not end in .yaml,
   a source that is neither a string nor a mapping, a yaml file that cannot
   be read), it raises and the tree is exactly as before the call, also when
   earlier pairs of the string were well-formed; the empty string raises
   nothing and changes nothing. *)
C11_FailedResolveKeepsTree ==
    (op = "override") =>
        /\ ResolveFails(src) => exc.type = "ValueError" /\ tree = pre
        /\ exc.type = "IOError" => tree = pre
        /\ src = PyStr(<<>>) => exc = NoExc /\ tree = pre

\* "a=1,a=b=c": the first pair is well-formed, the second raises, a is as it was
C11_Witness ==
    /\ op = "override"
    /\ src.s = <<"a", "=", "1", ",", "a", "=", "b", "=", "c">>
    /\ exc = Exc("ValueError", "Invalid config_str", src.s)
    /\ tree = pre
    /\ Get(tree.kids, ka) # PyInt(1)

----------------------------------------------------------------------------
(* Structures the caller keeps and mutates after storing them *)

Mutable(v) == v.t \in {"list", "dict", "cfg"}

RECURSIVE Ids(_)
\* the identities of the caller's objects in v
Ids(v) ==
    (IF Mutable(v) /\ v.id # 0 THEN {v.id} ELSE {})
        \cup UNION {Ids(v.kids[i].v) : i \in 1..Len(v.kids)}

RECURSIVE Parts(_)
\* v and the lists, dicts and Configs in it
Parts(v) ==
    IF Mutable(v) THEN {v} \cup UNION {Parts(v.kids[i].v) : i \in 1..Len(v.kids)} ELSE {}

\* what the caller does to an object of its own: l[0] = 9 on a list,
\* d["c"] = 9 on a dict, c.c = 9 on a Config
Mutations(o) ==
    IF o.t = "list"
    THEN {[o EXCEPT !.kids[1] = KV(<<>>, PyInt(9))]}
    ELSE {[o EXCEPT !.kids = Put(o.kids, kc, PyInt(9))]}

RECURSIVE Mutated(_, _, _)
\* v once the object of identity id is new: every reference to it sees new
Mutated(v, id, new) ==
    IF Mutable(v) /\ v.id = id THEN new
    ELSE [v EXCEPT !.kids = [i \in 1..Len(v.kids) |->
                                 KV(v.kids[i].k, Mutated(v.kids[i].v, id, new))]]

\* a mapping with a list and a nested mapping holding a list; a mapping holding
\* a child node of another tree; another tree
AliasStructs ==
    {Held(PyDict(0, <<KV(ka, TheList), KV(kb, PyDict(0, <<KV(kb, TheList)>>))>>), 1),
     Held(PyDict(0, <<KV(ka, Cfg(0, <<KV(kb, TheList)>>))>>), 1),
     Held(Cfg(0, <<KV(ka, Cfg(0, <<KV(kb, TheList)>>)), KV(kb, TheList)>>), 1)}

\* h = Config(), and a structure of the caller's
InitAlias ==
    /\ tree = Config(PyNone).self
    /\ pre = Cfg(0, <<>>)
    /\ src = PyNone
    /\ op = "idle"
    /\ allow = TRUE
    /\ exc = NoExc
    /\ out = Unset
    /\ ext \in AliasStructs

\* tree = Config(v), for a mapping v of the caller's
StoreInit ==
    \E v \in {x \in Parts(ext) : x.t = "dict"} :
        /\ op = "idle"
        /\ tree' = Config(v).self
        /\ exc' = Config(v).exc
        /\ pre' = Cfg(0, <<>>)
        /\ src' = v
        /\ op' = "init"
        /\ allow' = TRUE
        /\ out' = Unset
        /\ UNCHANGED ext

\* tree.k = v, for an object v of the caller's
StoreSetAttr ==
    \E k \in {ka, kb}, v \in Parts(ext) :
        Called("setattr", v, TRUE, __setattr__(tree, k, v))

\* tree.update(v), for a mapping v of the caller's
StoreUpdate ==
    \E v \in {x \in Parts(ext) : x.t = "dict"} :
        Called("update", v, TRUE, update(tree, v))

\* tree.override(v), tree.override(v, True), for a mapping v of the caller's
StoreOverride ==
    \E v \in {x \in Parts(ext) : x.t = "dict"}, a \in BOOLEAN :
        Called("override", v, a, override(tree, v, a, NoFile))

\* the caller changes an object of its own, in place
Mutate ==
    \E o \in Parts(ext) :
        \E new \in Mutations(o) :
            /\ op = "idle"
            /\ new # o
            /\ ext' = Mutated(ext, o.id, new)
            /\ tree' = Mutated(tree, o.id, new)
            /\ pre' = tree
            /\ src' = o
            /\ op' = "mutate"
            /\ UNCHANGED <<allow, exc, out>>

NextAlias == StoreInit \/ StoreSetAttr \/ StoreUpdate \/ StoreOverride \/ Mutate \/ Return

SpecAlias == InitAlias /\ [][NextAlias]_vars

(* C6: a value stored in the tree by construction, attribute assignment,
   update or override shares no list, mapping or node with what the caller
   passed or with another tree, and a later mutation of the caller's
   structure changes no value of the tree. *)
C6_LeafIsolation ==
    /\ Ids(tree) = {}
    /\ op = "mutate" => tree = pre

\* the caller's list was stored and later changed; the tree has the old value
C6_Witness ==
    /\ op = "mutate"
    /\ src.t = "list"
    /\ \E k \in KeysOf(tree) : ValEq(Get(tree.kids, k), TheList)
    /\ \A p \in Parts(ext) : p.t = "list" => ~ValEq(p, TheList)

====
